---- MODULE Spec2Model ----
(***************************************************************************)
(* The gift auto-purchase bot of src/bot.py as a state machine: the users  *)
(* table (one row per user, holding the settings and the ledger fields),   *)
(* the gifts catalog, the logs table, the clock, and the handlers, each an *)
(* asyncio task that runs from one await to the next.  A handler reads a   *)
(* user row into a local dict, changes the dict and writes the whole row   *)
(* back (db_save_user); other tasks may run between the read and the       *)
(* write.                                                                  *)
(***************************************************************************)
EXTENDS Integers, Sequences, FiniteSets, TLC

VARIABLES
    users,      \* users table: user_id -> row (the columns of DEFAULT_USER)
    gifts,      \* gifts table: gid -> [price, active, created]
    logs,       \* logs table, in id order
    day,        \* the local date, as an index into Dates
    now,        \* the UTC clock, in seconds
    task,       \* handler tasks in flight: slot -> position and locals
    configured  \* history: the users table as it was when the run started

vars == <<users, gifts, logs, day, now, task, configured>>

\* ------------------------------------------------------------------ bounds

\* Entries the logs table may hold; a handler starts only when there is room
\* for every entry it and the handlers in flight may still write.
MaxLogs == 4

\* The credit a deposit may raise the balance to.
MaxCredit == 100

\* The clock moves in steps of ClockStep seconds, up to MaxNow.
ClockStep == 300

MaxNow == 600

\* The hours the clock may pass in whole hours.
MaxHours == 2

\* Task slots: at most two handlers in flight.
Tasks == {1, 2}

\* The users with a row in the users table.
Uids == {1, 2}

\* The dates the clock runs through (a year's end, so that year, month and
\* day of the key all change).
Dates == << [year |-> 2026, month |-> 12, day |-> 30],
            [year |-> 2026, month |-> 12, day |-> 31],
            [year |-> 2027, month |-> 1,  day |-> 1] >>

\* config.py: the per-gift cooldown, in seconds.
BUY_COOLDOWN_SEC == 600

\* ---------------------------------------------------------------- users

\* Python's None in the notifier_id column.
None == 0

DEFAULT_USER ==
    [ auto_on        |-> FALSE,
      notify_on      |-> TRUE,
      cycles         |-> 1,
      lower_limit    |-> 0,
      upper_limit    |-> 0,
      overall_limit  |-> 0,
      supply_limit   |-> 0,
      daily_budget   |-> 0,
      spent_today    |-> 0,
      credit         |-> 0,
      notifier_id    |-> None,
      per_drop_max   |-> 1,
      gift_ttl_hours |-> 24,
      spent_day      |-> 0 ]

\* get_user writes the row back when a column it read is None; notifier_id is
\* the one column whose default is None.
needs_save(row) == row.notifier_id = None

\* today_key(): the date as year*10000 + month*100 + day.
today_key ==
    LET d == Dates[day] IN d.year * 10000 + d.month * 100 + d.day

\* --------------------------------------------------------------- ledger

\* A rollover that sets the day and keeps the day's spending.
rollover_keep(u, key) ==
    IF u.spent_day # key THEN [u EXCEPT !.spent_day = key] ELSE u

\* No rollover at all.
rollover_none(u, key) == u

\* try_debit's daily rollover: a stored day other than today resets the day's
\* spending.
rollover(u, key) ==
    IF u.spent_day # key
    THEN [u EXCEPT !.spent_day = key, !.spent_today = 0]
    ELSE u

\* The tests without the one of the credit.
refusal_no_credit_test(u, cost) ==
    IF u.daily_budget # 0 /\ u.spent_today + cost > u.daily_budget
    THEN "Daily budget exceeded."
    ELSE IF u.overall_limit # 0 /\ u.overall_limit < cost
    THEN "Overall limit reached."
    ELSE "OK"

\* The tests with a daily budget that may not be spent to the last star.
refusal_daily_strict(u, cost) ==
    IF u.credit < cost
    THEN "Insufficient credit."
    ELSE IF u.daily_budget # 0 /\ u.spent_today + cost >= u.daily_budget
    THEN "Daily budget exceeded."
    ELSE IF u.overall_limit # 0 /\ u.overall_limit < cost
    THEN "Overall limit reached."
    ELSE "OK"

\* try_debit's three tests, in order, on the rolled-over row: the reason of
\* the refusal, or "OK".
refusal(u, cost) ==
    IF u.credit < cost
    THEN "Insufficient credit."
    ELSE IF u.daily_budget # 0 /\ u.spent_today + cost > u.daily_budget
    THEN "Daily budget exceeded."
    ELSE IF u.overall_limit # 0 /\ u.overall_limit < cost
    THEN "Overall limit reached."
    ELSE "OK"

\* try_debit's debit of an accepted cost.
debit(u, cost) ==
    [u EXCEPT !.credit = @ - cost,
              !.spent_today = @ + cost,
              !.overall_limit = IF @ # 0 THEN @ - cost ELSE @]

\* try_debit between its read and its write: the answer and the row it will
\* write back (written back on a refusal too).
try_debit(row, cost, key) ==
    LET u == rollover(row, key)
        why == refusal(u, cost)
    IN  [reason |-> why, u |-> IF why = "OK" THEN debit(u, cost) ELSE u]

\* ---------------------------------------------------------------- gifts

NoGift == [found |-> FALSE, price |-> 0, active |-> FALSE, created |-> 0]

\* gift_get: the row of gid, or none.
gift_get(gid) ==
    IF gid \in DOMAIN gifts
    THEN [found |-> TRUE, price |-> gifts[gid].price,
          active |-> gifts[gid].active, created |-> gifts[gid].created]
    ELSE NoGift

\* gifts_active: the gids of the active gifts.
gifts_active == {gid \in DOMAIN gifts : gifts[gid].active}

\* A filter that takes an upper limit of 0 for a limit.
admits_upper_zero_rejects(u, price) ==
    /\ ~(u.lower_limit # 0 /\ price < u.lower_limit)
    /\ ~(price > u.upper_limit)

\* first_allowed_gift's price filter: a limit of 0 is no limit.
admits(u, price) ==
    /\ ~(u.lower_limit # 0 /\ price < u.lower_limit)
    /\ ~(u.upper_limit # 0 /\ price > u.upper_limit)

\* first_allowed_gift: the first gift of gifts_active (ORDER BY created DESC)
\* that passes the filter.  SQLite leaves the order of gifts created in the
\* same second open, so each of them may come first.
first_allowed_gift(u) ==
    {gid \in gifts_active :
        /\ admits(u, gifts[gid].price)
        /\ \A h \in gifts_active :
              admits(u, gifts[h].price) => gifts[h].created <= gifts[gid].created}

Min(a, b) == IF a <= b THEN a ELSE b

Max(a, b) == IF a >= b THEN a ELSE b

\* A quantity that leaves the supply limit out.
quantity_no_supply(u) ==
    LET permax == Max(1, u.per_drop_max)
    IN  Min(permax, IF u.cycles > 0 THEN u.cycles ELSE permax)

\* try_auto_buy's quantity for one drop.
quantity(u) ==
    LET cycles == u.cycles
        permax == Max(1, u.per_drop_max)
        qty    == Min(permax, IF cycles > 0 THEN cycles ELSE permax)
    IN  IF u.supply_limit # 0 THEN Min(qty, u.supply_limit) ELSE qty

\* ----------------------------------------------------------------- tasks

Idle ==
    [ pc     |-> "idle",   \* where the handler stands
      op     |-> "",       \* the handler
      uid    |-> 0,
      gid    |-> <<>>,
      price  |-> 0,
      qty    |-> 0,
      total  |-> 0,
      site   |-> "",       \* the get_user call in progress
      row    |-> DEFAULT_USER,  \* the row get_user returned
      u      |-> DEFAULT_USER,  \* the local dict, as changed
      key    |-> 0,        \* today_key() as try_debit read it
      reason |-> "",       \* try_debit's answer; "" before it answered
      sent   |-> 0,
      tries  |-> 0,        \* try_send_gift calls made
      todo   |-> << >>,    \* on_channel_post: the users still to visit
      chat   |-> 0,        \* on_channel_post: msg.chat.id
      drop   |-> <<>>,     \* on_channel_post: the gid of the gift announced
      at     |-> 0,        \* on_channel_post: the time of its gift_upsert
      field  |-> "",       \* set_user: the column
      val    |-> 0,        \* set_user: its new value
      seen   |-> FALSE ]   \* try_auto_buy: the auto_on of the row it read

\* The handlers that run try_auto_buy.
InAuto(tk) == tk.op \in {"test_notify", "on_channel_post"}

\* A test of the user that leaves the post's channel out.
eligible_any_channel(row, chat) == row.auto_on

\* on_channel_post's test of a user: Auto-Buy on, and the post's channel the
\* user's notifier.
eligible(row, chat) == row.auto_on /\ row.notifier_id = chat

RECURSIVE Eligible(_, _)
\* How many of the users of a list a post of chat would buy for.
Eligible(todo, chat) ==
    IF todo = << >> THEN 0
    ELSE (IF eligible(users[Head(todo)], chat) THEN 1 ELSE 0)
         + Eligible(Tail(todo), chat)

\* Log entries a handler may still write, at most.
log_budget(tk) ==
    CASE tk.op = "on_buy"          -> 2
      [] tk.op = "test_notify"     -> 2
      [] tk.op = "on_channel_post" -> 2 * Eligible(tk.todo, tk.chat)
      [] tk.op = "on_paid"         -> 1
      [] OTHER                     -> 0

Pending == log_budget(task[1]) + log_budget(task[2])

LogRoom(n) == Len(logs) + Pending + n <= MaxLogs

\* A logs row: db_log's user_id, kind and ts, and the parts of its message.
entry(tk, kind, note) ==
    [ uid  |-> tk.uid, kind |-> kind, gid |-> tk.gid, sent |-> tk.sent,
      qty  |-> tk.qty, cost |-> tk.total, note |-> note, ts |-> now ]

\* on_channel_post's loop moves to the next user, or ends.
next_user(tk) ==
    LET rest == Tail(tk.todo)
    IN  [Idle EXCEPT !.op = tk.op, !.chat = tk.chat, !.drop = tk.drop,
                     !.at = tk.at,
                     !.todo = rest,
                     !.uid = IF rest = << >> THEN tk.uid ELSE Head(rest),
                     !.pc  = IF rest = << >> THEN "done" ELSE "post"]

\* A try_auto_buy that never skips.
skips_never(row) == FALSE

\* try_auto_buy's test of the row it read: Auto-Buy off, and it skips.
skips(row) == ~row.auto_on

\* A deposit that also starts the day's spending anew.
deposit_resets_day(u, total) ==
    [u EXCEPT !.credit = @ + total, !.spent_today = 0]

\* on_paid's change of the dict: u["credit"] += total.
deposit(u, total) == [u EXCEPT !.credit = @ + total]

\* The code that runs, without an await, when get_user has returned.
resume(tk, key) ==
    CASE tk.site = "debit" ->
            LET r == try_debit(tk.row, tk.total, key)
            IN  [tk EXCEPT !.u = r.u, !.reason = r.reason, !.key = key,
                           !.pc = "debit_save"]
      [] tk.site = "auto" ->
            IF skips(tk.row)
            THEN [tk EXCEPT !.seen = tk.row.auto_on,
                            !.pc = "log"]      \* db_log "Skipped (auto off)"
            ELSE [tk EXCEPT !.seen = tk.row.auto_on, !.u = tk.row,
                            !.pc = "pick"]
      [] tk.site = "paid" ->
            [tk EXCEPT !.u = deposit(tk.row, tk.total), !.pc = "save"]
      [] tk.site = "set" ->
            [tk EXCEPT !.u = [tk.row EXCEPT ![tk.field] = tk.val],
                       !.pc = "save"]
      [] tk.site = "toggle" ->               \* flag = not u.get("auto_on")
            [tk EXCEPT !.field = "auto_on", !.val = ~tk.row.auto_on,
                       !.pc = "set"]
      [] tk.site = "show" -> [tk EXCEPT !.pc = "done"]
      [] tk.site = "post" ->
            IF eligible(tk.row, tk.chat)
            THEN [tk EXCEPT !.pc = "auto"]     \* try_auto_buy(uid)
            ELSE next_user(tk)
      [] OTHER -> tk

\* The get_user calls of the handlers, by the position that makes them.
Sites == {"debit", "auto", "paid", "set", "toggle", "show", "post"}

\* get_user, its read (db_get_user).
get_user(t) ==
    /\ task[t].pc \in Sites
    /\ LET row == users[task[t].uid]
           tk  == [task[t] EXCEPT !.row = row, !.site = task[t].pc]
       IN  task' = [task EXCEPT ![t] =
                       IF needs_save(row)
                       THEN [tk EXCEPT !.pc = "resave"]
                       ELSE resume(tk, today_key)]
    /\ UNCHANGED <<users, gifts, logs, day, now, configured>>

\* get_user, its write-back of a row with a None column.
get_user_save(t) ==
    /\ task[t].pc = "resave"
    /\ users' = [users EXCEPT ![task[t].uid] = task[t].row]
    /\ task' = [task EXCEPT ![t] = resume(task[t], today_key)]
    /\ UNCHANGED <<gifts, logs, day, now, configured>>

\* A caller that goes on to send whatever try_debit answered.
after_debit_always_send(tk) == "send"

\* Where on_buy and try_auto_buy go on try_debit's answer.
after_debit(tk) ==
    IF tk.reason = "OK" THEN "send"
    ELSE IF tk.op = "on_buy" THEN "done"   \* cq.answer(reason); return
    ELSE "log"                             \* db_log AUTO_FAIL; return

\* try_debit's db_save_user, and the caller's test of the answer.
debit_save(t) ==
    /\ task[t].pc = "debit_save"
    /\ users' = [users EXCEPT ![task[t].uid] = task[t].u]
    /\ task' = [task EXCEPT ![t].pc = after_debit(task[t])]
    /\ UNCHANGED <<gifts, logs, day, now, configured>>

\* What bot.request("sendGift") may do: return a result, return an empty
\* one, or raise.
Responses == {"ok", "empty", "raise"}

\* A try_send_gift that lets the exception of bot.request through.
try_send_gift_raises(res) ==
    [ ok     |-> res = "ok",
      why    |-> IF res = "ok" THEN "OK" ELSE "Unknown API response",
      raised |-> res = "raise" ]

\* try_send_gift: (True, "OK"), or (False, why); an exception is caught and
\* returned as (False, str(e)).
try_send_gift(res) ==
    [ ok     |-> res = "ok",
      why    |-> CASE res = "ok"    -> "OK"
                   [] res = "empty" -> "Unknown API response"
                   [] OTHER         -> "exception",
      raised |-> FALSE ]

\* A send loop that goes on after a failed send.
loop_next_no_break(tk, ok) ==
    IF tk.tries + 1 >= tk.qty THEN "log" ELSE "send"

\* Where the send loop goes after a pass: on to the next piece, out of the
\* loop when the last piece is sent, and out of it (break) on a failure.
loop_next(tk, ok) ==
    IF ok THEN (IF tk.sent + 1 = tk.qty THEN "log" ELSE "send")
    ELSE "log"

\* One pass of the send loop: try_send_gift; a failure is logged and ends the
\* loop.  An exception that left try_send_gift would end the handler.
send(t) ==
    /\ task[t].pc = "send"
    /\ task[t].tries < task[t].qty        \* for _ in range(qty)
    /\ \E res \in Responses :
         LET r == try_send_gift(res)
         IN  IF r.raised
             THEN /\ task' = [task EXCEPT ![t].tries = @ + 1, ![t].pc = "done"]
                  /\ logs' = logs
             ELSE IF r.ok
             THEN /\ task' = [task EXCEPT ![t].sent = @ + 1, ![t].tries = @ + 1,
                                 ![t].pc = loop_next(task[t], TRUE)]
                  /\ logs' = logs
             ELSE /\ task' = [task EXCEPT ![t].tries = @ + 1,
                                 ![t].pc = loop_next(task[t], FALSE)]
                  /\ logs' = Append(logs,
                        entry(task[t],
                              IF InAuto(task[t]) THEN "AUTO_FAIL" ELSE "BUY_FAIL",
                              r.why))
    /\ UNCHANGED <<users, gifts, day, now, configured>>

\* The kind of the handler's last db_log.
last_kind(tk) ==
    CASE tk.op = "on_buy" -> "BUY"
      [] tk.op = "on_paid" -> "DEPOSIT"
      [] tk.reason = "" -> "AUTO"
      [] tk.reason # "OK" -> "AUTO_FAIL"
      [] tk.sent = tk.qty -> "AUTO_OK"
      [] OTHER -> "AUTO_PARTIAL"

\* The text of the handler's last db_log, where it is not the purchase.
last_note(tk) ==
    IF tk.reason # "" THEN tk.reason
    ELSE IF InAuto(tk) /\ ~tk.row.auto_on THEN "Skipped (auto off)"
    ELSE IF InAuto(tk) THEN "No gift matches price filters"
    ELSE ""

\* The handler's last db_log.
log(t) ==
    /\ task[t].pc = "log"
    /\ logs' = Append(logs, entry(task[t], last_kind(task[t]), last_note(task[t])))
    /\ task' = [task EXCEPT ![t] = IF task[t].op = "on_channel_post"
                                   THEN next_user(task[t])
                                   ELSE [task[t] EXCEPT !.pc = "done"]]
    /\ UNCHANGED <<users, gifts, day, now, configured>>

\* The handler returns and its task ends.
return(t) ==
    /\ task[t].pc = "done"
    /\ task' = [task EXCEPT ![t] = Idle]
    /\ UNCHANGED <<users, gifts, logs, day, now, configured>>

\* on_buy up to its call of try_debit: gift_get, and the total.
on_buy(t, uid, gid, count) ==
    /\ task[t].pc = "idle"
    /\ LogRoom(2)
    /\ LET g == gift_get(gid)
           tk == [Idle EXCEPT !.op = "on_buy", !.uid = uid, !.gid = gid]
       IN  task' = [task EXCEPT ![t] =
                       IF ~g.found \/ ~g.active
                       THEN [tk EXCEPT !.pc = "done"]
                       ELSE [tk EXCEPT !.pc = "debit", !.price = g.price,
                                       !.qty = count,
                                       !.total = g.price * count]]
    /\ UNCHANGED <<users, gifts, logs, day, now, configured>>

\* test_notify: the notice, then try_auto_buy.
test_notify(t, uid) ==
    /\ task[t].pc = "idle"
    /\ LogRoom(2)
    /\ task' = [task EXCEPT ![t] = [Idle EXCEPT !.op = "test_notify",
                                                 !.uid = uid, !.pc = "auto"]]
    /\ UNCHANGED <<users, gifts, logs, day, now, configured>>

\* try_auto_buy after the auto_on test: first_allowed_gift, the quantity and
\* the total.
pick(t) ==
    /\ task[t].pc = "pick"
    /\ LET tk == task[t]
           found == first_allowed_gift(tk.u)
       IN  IF found = {}
           THEN task' = [task EXCEPT ![t].pc = "log"]
           ELSE \E gid \in found :
                  task' = [task EXCEPT ![t] =
                      [tk EXCEPT !.gid = gid, !.price = gifts[gid].price,
                                 !.qty = quantity(tk.u),
                                 !.total = gifts[gid].price * quantity(tk.u),
                                 !.pc = "debit"]]
    /\ UNCHANGED <<users, gifts, logs, day, now, configured>>

\* db_save_user of the local dict, in on_paid and in set_user.
save(t) ==
    /\ task[t].pc = "save"
    /\ users' = [users EXCEPT ![task[t].uid] = task[t].u]
    /\ task' = [task EXCEPT ![t].pc = IF task[t].op = "on_paid" THEN "log"
                                      ELSE "show"]
    /\ UNCHANGED <<gifts, logs, day, now, configured>>

\* on_paid: a successful payment of amount stars arrives.
on_paid(t, uid, amount) ==
    /\ task[t].pc = "idle"
    /\ LogRoom(1)
    /\ users[uid].credit + amount <= MaxCredit
    /\ task' = [task EXCEPT ![t] = [Idle EXCEPT !.op = "on_paid", !.uid = uid,
                                                 !.total = amount, !.pc = "paid"]]
    /\ UNCHANGED <<users, gifts, logs, day, now, configured>>

\* A reading that stores the number as it was sent.
field_value_raw(field, v) == v

\* set_field's reading of the number sent: negative numbers become 0, and a
\* per_drop_max below 1 becomes 1.
field_value(field, v) ==
    LET w == Max(0, v) IN IF field = "per_drop_max" /\ w < 1 THEN 1 ELSE w

\* set_field: the user sends the number v for a settings column.
set_field(t, uid, field, v) ==
    /\ task[t].pc = "idle"
    /\ task' = [task EXCEPT ![t] = [Idle EXCEPT !.op = "set_field", !.uid = uid,
                                                 !.field = field,
                                                 !.val = field_value(field, v),
                                                 !.pc = "set"]]
    /\ UNCHANGED <<users, gifts, logs, day, now, configured>>

\* toggle_auto: the Auto-Buy button; the row is read, and set_user is called
\* with the flag turned.
toggle_auto(t, uid) ==
    /\ task[t].pc = "idle"
    /\ task' = [task EXCEPT ![t] = [Idle EXCEPT !.op = "toggle_auto", !.uid = uid,
                                                 !.pc = "toggle"]]
    /\ UNCHANGED <<users, gifts, logs, day, now, configured>>

\* gift_upsert: a new row, or the emoji, name, price and active of the row
\* of gid; created stays what it was.
gift_upsert(gid, price, active) ==
    IF gid \in DOMAIN gifts
    THEN [gifts EXCEPT ![gid] = [@ EXCEPT !.price = price, !.active = active]]
    ELSE gifts @@ (gid :> [price |-> price, active |-> active, created |-> now])

\* db_all_users: the user ids, in the order of the table.
db_all_users == << 1, 2 >>

\* on_channel_post of a post that announces a limited gift drop: the gift
\* is upserted under the id made of its name and price, then the users are
\* visited.
on_channel_post(t, chat, name, price) ==
    /\ task[t].pc = "idle"
    /\ Len(logs) + Pending + 2 * Eligible(db_all_users, chat) <= MaxLogs
    /\ gifts' = gift_upsert(<<name, price>>, price, TRUE)
    /\ task' = [task EXCEPT ![t] = [Idle EXCEPT !.op = "on_channel_post",
                                                 !.chat = chat,
                                                 !.drop = <<name, price>>,
                                                 !.at = now,
                                                 !.todo = db_all_users,
                                                 !.uid = Head(db_all_users),
                                                 !.pc = "post"]]
    /\ UNCHANGED <<users, logs, day, now, configured>>

\* gift_gc: the active gifts created before the cutoff are deactivated.
gift_gc(ttl_hours) ==
    LET cutoff == now - ttl_hours * 3600
    IN  [gid \in DOMAIN gifts |->
            IF gifts[gid].created < cutoff /\ gifts[gid].active
            THEN [gifts[gid] EXCEPT !.active = FALSE]
            ELSE gifts[gid]]

\* gift_gc_loop's ttl: the smallest gift_ttl_hours of the users table, and
\* 24 when that is 0.
gc_ttl ==
    LET least == CHOOSE h \in {users[uid].gift_ttl_hours : uid \in Uids} :
                    \A uid \in Uids : h <= users[uid].gift_ttl_hours
    IN  IF least # 0 THEN least ELSE 24

\* One pass of gift_gc_loop: gift_gc, and a GC entry in the logs when a
\* gift was archived.
gift_gc_loop ==
    LET after == gift_gc(gc_ttl)
        n     == Cardinality({gid \in DOMAIN gifts : after[gid] # gifts[gid]})
    IN  /\ n = 0 \/ LogRoom(1)
        /\ gifts' = after
        /\ logs' = IF n = 0 THEN logs
                   ELSE Append(logs,
                          [ uid |-> None, kind |-> "GC", gid |-> << >>,
                            sent |-> 0, qty |-> n, cost |-> 0,
                            note |-> "Archived", ts |-> now ])
        /\ UNCHANGED <<users, day, now, task, configured>>

\* An hour passes.
Hour ==
    /\ now + 3600 <= MaxHours * 3600
    /\ now' = now + 3600
    /\ UNCHANGED <<users, gifts, logs, day, task, configured>>

\* Time passes.
Tick ==
    /\ now + ClockStep <= MaxNow
    /\ now' = now + ClockStep
    /\ UNCHANGED <<users, gifts, logs, day, task, configured>>

\* Midnight: date.today() moves to the next date.
NewDay ==
    /\ day < Len(Dates)
    /\ day' = day + 1
    /\ UNCHANGED <<users, gifts, logs, now, task, configured>>

\* No handler is in flight.
Quiet == \A t \in Tasks : task[t].pc = "idle"

\* ------------------------------------------------- the ledger, in sequence

\* The notifier channel of /source: a chat id, any integer but None.
Channel == 1

\* The settings and the balance the ledger runs start from.
Credits == {0, 30, 60}

DailyBudgets == {0, 45}

OverallLimits == {0, 30}

SupplyLimits == {0, 1}

\* The packs of the catalog's buy buttons (PACKS, its first two).
Packs == {1, 2}

Teddy == <<"teddy">>

Ring == <<"ring">>

Catalog ==
    (Teddy :> [price |-> 15, active |-> TRUE, created |-> 0])
    @@ (Ring :> [price |-> 25, active |-> FALSE, created |-> 0])

\* User 1 has deposited and set the limits; nothing was bought yet.
InitLedger ==
    /\ \E c \in Credits, d \in DailyBudgets, o \in OverallLimits,
          s \in SupplyLimits, a \in BOOLEAN, n \in {None, Channel} :
          users = [uid \in Uids |->
                     IF uid = 1
                     THEN [DEFAULT_USER EXCEPT !.credit = c, !.daily_budget = d,
                              !.overall_limit = o, !.supply_limit = s,
                              !.auto_on = a, !.notifier_id = n]
                     ELSE DEFAULT_USER]
    /\ gifts = Catalog
    /\ logs = << >>
    /\ day = 1
    /\ now = 0
    /\ task = [t \in Tasks |-> Idle]
    /\ configured = users

\* The handlers run one after another, in task slot 1: manual buys and test
\* drops of user 1, and midnights.
NextLedger ==
    \/ \E gid \in DOMAIN gifts, count \in Packs : on_buy(1, 1, gid, count)
    \/ test_notify(1, 1)
    \/ get_user(1)
    \/ get_user_save(1)
    \/ pick(1)
    \/ debit_save(1)
    \/ send(1)
    \/ log(1)
    \/ return(1)
    \/ NewDay

SpecLedger == InitLedger /\ [][NextLedger]_vars

\* ------------------------------------------------- the drops, in sequence

\* The gifts the channel announces: a name and a price in stars.
DropNames == {"teddy"}

DropPrices == {15, 25}

\* The price limits set: none, or one between the two prices.
Limits == {0, 20}

\* User 1 has set the channel as notifier and the price limits, and has
\* deposited; the catalog is empty.  User 2 has the default row.
InitDrop ==
    /\ \E c \in Credits, a \in BOOLEAN, m \in Packs, lo \in Limits, up \in Limits :
          users = [uid \in Uids |->
                     IF uid = 1
                     THEN [DEFAULT_USER EXCEPT !.credit = c, !.auto_on = a,
                              !.notifier_id = Channel, !.per_drop_max = m,
                              !.cycles = 0, !.lower_limit = lo,
                              !.upper_limit = up]
                     ELSE DEFAULT_USER]
    /\ gifts = << >>
    /\ logs = << >>
    /\ day = 1
    /\ now = 0
    /\ task = [t \in Tasks |-> Idle]
    /\ configured = users

\* The channel's posts are handled one after another, in task slot 1, and
\* time passes.
NextDrop ==
    \/ \E name \in DropNames, price \in DropPrices :
          on_channel_post(1, Channel, name, price)
    \/ get_user(1)
    \/ get_user_save(1)
    \/ pick(1)
    \/ debit_save(1)
    \/ send(1)
    \/ log(1)
    \/ return(1)
    \/ Tick

SpecDrop == InitDrop /\ [][NextDrop]_vars

\* ------------------------------------------------ the handlers, interleaved

\* The stars of a deposit (the first button of the deposit menu).
Deposits == {50}

\* The numbers sent for the daily budget.
BudgetsSent == {-1, 45}

\* User 1 has 15 stars, the price of one teddy; every setting is the default.
Init ==
    /\ users = [uid \in Uids |->
                  IF uid = 1 THEN [DEFAULT_USER EXCEPT !.credit = 15]
                  ELSE DEFAULT_USER]
    /\ gifts = Catalog
    /\ logs = << >>
    /\ day = 1
    /\ now = 0
    /\ task = [t \in Tasks |-> Idle]
    /\ configured = users

\* Updates of user 1 arrive while others are being handled: every handler
\* is a task of its own, and the tasks take turns at their awaits.
Next ==
    \E t \in Tasks :
        \/ on_buy(t, 1, Teddy, 1)
        \/ \E amount \in Deposits : on_paid(t, 1, amount)
        \/ \E v \in BudgetsSent : set_field(t, 1, "daily_budget", v)
        \/ get_user(t)
        \/ get_user_save(t)
        \/ debit_save(t)
        \/ save(t)
        \/ send(t)
        \/ log(t)
        \/ return(t)

Spec == Init /\ [][Next]_vars

\* ------------------------------------------- the toggle and the drops

\* User 1 has set the channel as notifier, has 30 stars and may have set an
\* overall limit and two pieces per drop; Auto-Buy is on or off.
InitToggle ==
    /\ \E a \in BOOLEAN, o \in OverallLimits, m \in Packs :
          users = [uid \in Uids |->
                     IF uid = 1
                     THEN [DEFAULT_USER EXCEPT !.credit = 30, !.auto_on = a,
                              !.notifier_id = Channel, !.overall_limit = o,
                              !.per_drop_max = m, !.cycles = 0]
                     ELSE DEFAULT_USER]
    /\ gifts = Catalog
    /\ logs = << >>
    /\ day = 1
    /\ now = 0
    /\ task = [t \in Tasks |-> Idle]
    /\ configured = users

\* User 1 simulates drops (handled in task slot 1) and presses the Auto-Buy
\* button (handled in task slot 2), and the handlers take turns at their
\* awaits.
NextToggle ==
    \E t \in Tasks :
        \/ t = 2 /\ toggle_auto(t, 1)
        \/ t = 1 /\ test_notify(t, 1)
        \/ get_user(t)
        \/ pick(t)
        \/ debit_save(t)
        \/ save(t)
        \/ send(t)
        \/ log(t)
        \/ return(t)

SpecToggle == InitToggle /\ [][NextToggle]_vars

\* ------------------------------------------- the settings, in sequence

\* The columns edited, and the numbers sent for them.
FieldsSent == {"daily_budget", "overall_limit"}

NumbersSent == {-1, 10, 45}

\* User 1 has deposited; every setting is the default.
InitSettings ==
    /\ \E c \in Credits :
          users = [uid \in Uids |->
                     IF uid = 1 THEN [DEFAULT_USER EXCEPT !.credit = c]
                     ELSE DEFAULT_USER]
    /\ gifts = Catalog
    /\ logs = << >>
    /\ day = 1
    /\ now = 0
    /\ task = [t \in Tasks |-> Idle]
    /\ configured = users

\* Manual buys, deposits and settings edits of user 1, one after another, in
\* task slot 1.
NextSettings ==
    \/ \E count \in Packs : on_buy(1, 1, Teddy, count)
    \/ \E amount \in Deposits : on_paid(1, 1, amount)
    \/ \E field \in FieldsSent, v \in NumbersSent : set_field(1, 1, field, v)
    \/ get_user(1)
    \/ get_user_save(1)
    \/ debit_save(1)
    \/ save(1)
    \/ send(1)
    \/ log(1)
    \/ return(1)

SpecSettings == InitSettings /\ [][NextSettings]_vars

\* ------------------------------------------- the posts of two channels

\* Another channel the bot is a member of.
Other == 2

\* Both users have 15 stars; each has Auto-Buy on or off, and for notifier
\* none, the channel or the other channel.  The catalog holds the teddy.
InitPost ==
    /\ \E a1 \in BOOLEAN, a2 \in BOOLEAN,
          n1 \in {None, Channel, Other}, n2 \in {None, Channel, Other} :
          users = [uid \in Uids |->
                     [DEFAULT_USER EXCEPT
                         !.credit = 15,
                         !.auto_on = IF uid = 1 THEN a1 ELSE a2,
                         !.notifier_id = IF uid = 1 THEN n1 ELSE n2]]
    /\ gifts = Catalog
    /\ logs = << >>
    /\ day = 1
    /\ now = 0
    /\ task = [t \in Tasks |-> Idle]
    /\ configured = users

\* The posts of the two channels are handled one after another, in task
\* slot 1.
NextPost ==
    \/ \E chat \in {Channel, Other}, name \in DropNames, price \in DropPrices :
          on_channel_post(1, chat, name, price)
    \/ get_user(1)
    \/ get_user_save(1)
    \/ pick(1)
    \/ debit_save(1)
    \/ send(1)
    \/ log(1)
    \/ return(1)

SpecPost == InitPost /\ [][NextPost]_vars

\* ------------------------------------------- the quantity of a drop

\* The columns the quantity is made of, and the numbers sent for them.
QtyFields == {"cycles", "per_drop_max", "supply_limit"}

QtyNumbers == {-1, 0, 2, 3}

\* User 1 has Auto-Buy on, the channel as notifier and 60 stars; the
\* settings are the defaults.
InitQty ==
    /\ users = [uid \in Uids |->
                  IF uid = 1
                  THEN [DEFAULT_USER EXCEPT !.credit = 60, !.auto_on = TRUE,
                                            !.notifier_id = Channel]
                  ELSE DEFAULT_USER]
    /\ gifts = Catalog
    /\ logs = << >>
    /\ day = 1
    /\ now = 0
    /\ task = [t \in Tasks |-> Idle]
    /\ configured = users

\* Settings edits and simulated drops of user 1, one after another, in task
\* slot 1.
NextQty ==
    \/ \E field \in QtyFields, v \in QtyNumbers : set_field(1, 1, field, v)
    \/ test_notify(1, 1)
    \/ get_user(1)
    \/ pick(1)
    \/ debit_save(1)
    \/ save(1)
    \/ send(1)
    \/ log(1)
    \/ return(1)

SpecQty == InitQty /\ [][NextQty]_vars

\* ------------------------------------------- every setting, in sequence

\* The columns of ENTRY_MAP.
ENTRY_MAP ==
    {"cycles", "per_drop_max", "lower_limit", "upper_limit", "overall_limit",
     "supply_limit", "daily_budget", "gift_ttl_hours"}

\* The numbers sent for them.
RangeNumbers == {-1, 20}

\* User 1 has 30 stars; every setting is the default.
InitRange ==
    /\ users = [uid \in Uids |->
                  IF uid = 1
                  THEN [DEFAULT_USER EXCEPT !.credit = 30, !.notifier_id = Channel]
                  ELSE DEFAULT_USER]
    /\ gifts = Catalog
    /\ logs = << >>
    /\ day = 1
    /\ now = 0
    /\ task = [t \in Tasks |-> Idle]
    /\ configured = users

\* Settings edits and manual buys of user 1, one after another, in task
\* slot 1.
NextRange ==
    \/ \E field \in ENTRY_MAP, v \in RangeNumbers : set_field(1, 1, field, v)
    \/ on_buy(1, 1, Teddy, 1)
    \/ get_user(1)
    \/ debit_save(1)
    \/ save(1)
    \/ send(1)
    \/ log(1)
    \/ return(1)

SpecRange == InitRange /\ [][NextRange]_vars

\* ------------------------------------------- the lifetime of a gift

\* User 1 has set a gift TTL of one hour and the channel as notifier, and
\* has 15 stars; Auto-Buy is on or off.  The catalog is empty.
InitGc ==
    /\ \E a \in BOOLEAN :
          users = [uid \in Uids |->
                     IF uid = 1
                     THEN [DEFAULT_USER EXCEPT !.credit = 15, !.auto_on = a,
                              !.notifier_id = Channel, !.gift_ttl_hours = 1]
                     ELSE DEFAULT_USER]
    /\ gifts = << >>
    /\ logs = << >>
    /\ day = 1
    /\ now = 0
    /\ task = [t \in Tasks |-> Idle]
    /\ configured = users

\* The channel's posts are handled in task slot 1 while gift_gc_loop makes
\* its passes and the hours go by.
NextGc ==
    \/ \E name \in DropNames, price \in DropPrices :
          on_channel_post(1, Channel, name, price)
    \/ get_user(1)
    \/ get_user_save(1)
    \/ pick(1)
    \/ debit_save(1)
    \/ send(1)
    \/ log(1)
    \/ return(1)
    \/ gift_gc_loop
    \/ Hour

SpecGc == InitGc /\ [][NextGc]_vars

\* ------------------------------------------------------------ properties

\* The ledger columns of a users row.
Ledger(u) ==
    <<u.credit, u.spent_today, u.spent_day, u.overall_limit, u.supply_limit>>

\* The tasks whose try_debit has answered, and written its row back.
Debited(t) == task[t].reason # "" /\ task[t].pc \in {"send", "log", "done"}

\* The day's spending of a row once a day other than the stored one began.
SpentOn(row, key) == IF row.spent_day # key THEN 0 ELSE row.spent_today

RECURSIVE CostOf(_, _)
\* What the purchases of uid in the logs cost, all together.
CostOf(uid, es) ==
    IF es = << >> THEN 0
    ELSE (IF Head(es).uid = uid /\ Head(es).kind \in {"BUY", "AUTO_OK", "AUTO_PARTIAL"}
          THEN Head(es).cost ELSE 0) + CostOf(uid, Tail(es))

RECURSIVE PaidIn(_, _)
\* What the deposits of uid in the logs brought, all together.
PaidIn(uid, es) ==
    IF es = << >> THEN 0
    ELSE (IF Head(es).uid = uid /\ Head(es).kind = "DEPOSIT"
          THEN Head(es).cost ELSE 0) + PaidIn(uid, Tail(es))

\* C2: however the handlers of one user interleave, once they have ended the
\* credit is what it was, plus every deposit, less the cost of every debit
\* that was accepted.
C2_AtomicDebits ==
    Quiet =>
        \A uid \in Uids :
            users[uid].credit =
                configured[uid].credit + PaidIn(uid, logs) - CostOf(uid, logs)

\* C5: two automatic purchases of one gift for one user are at least the
\* cooldown apart.
C5_NoDoubleBuy ==
    \A i, j \in 1..Len(logs) :
        /\ i < j
        /\ logs[i].kind \in {"AUTO_OK", "AUTO_PARTIAL"} /\ logs[i].sent > 0
        /\ logs[j].kind \in {"AUTO_OK", "AUTO_PARTIAL"} /\ logs[j].sent > 0
        /\ logs[i].uid = logs[j].uid
        /\ logs[i].gid = logs[j].gid
        => logs[j].ts - logs[i].ts >= BUY_COOLDOWN_SEC

\* C1: over any sequence of debits, accepted or refused, with no settings
\* edit in between, the credit is never negative and the day's spending
\* never exceeds a daily budget that is set.
C1_BudgetInvariant ==
    \A uid \in Uids :
        /\ users[uid].credit >= 0
        /\ users[uid].daily_budget > 0 =>
              users[uid].spent_today <= users[uid].daily_budget

\* A debit was accepted, and the next one is refused at the daily budget.
C1_Witness ==
    /\ users[1].daily_budget > 0
    /\ users[1].spent_today > 0
    /\ users[1].credit > 0
    /\ task[1].pc = "done"
    /\ task[1].reason = "Daily budget exceeded."

\* C4: a run that starts with an overall limit L > 0 never debits more than
\* L in all (the limit is not edited in this specification).
C4_OverallCap ==
    \A uid \in Uids :
        configured[uid].overall_limit > 0 =>
            CostOf(uid, logs) <= configured[uid].overall_limit

C7_DebitEffect ==
    \A t \in Tasks :
        Debited(t) /\ task[t].reason = "OK" =>
            LET row == task[t].row
                p   == task[t].total
                new == users[task[t].uid]
            IN  /\ new.credit = row.credit - p
                /\ new.spent_today = SpentOn(row, task[t].key) + p
                /\ row.overall_limit # 0 => new.overall_limit = row.overall_limit - p
                /\ row.supply_limit # 0 => new.supply_limit = row.supply_limit - 1

\* C8, as claimed: a refused debit leaves the ledger columns of the stored
\* row as they were before the call.
C8_RefusalKeepsLedger ==
    \A t \in Tasks :
        Debited(t) /\ task[t].reason # "OK" =>
            Ledger(users[task[t].uid]) = Ledger(task[t].row)

\* C8, amended: a refused debit leaves credit, overall_limit and supply_limit
\* as they were; spent_today and spent_day too when the stored day is today,
\* and otherwise they become 0 and today's key.
C8_RefusalKeepsLedgerButDay ==
    \A t \in Tasks :
        Debited(t) /\ task[t].reason # "OK" =>
            LET row == task[t].row
                new == users[task[t].uid]
            IN  /\ new.credit = row.credit
                /\ new.overall_limit = row.overall_limit
                /\ new.supply_limit = row.supply_limit
                /\ new.spent_day = task[t].key
                /\ new.spent_today = SpentOn(row, task[t].key)

\* A debit refused on a day after the one stored, with spending stored.
C8_Witness ==
    /\ Debited(1)
    /\ task[1].reason # "OK"
    /\ task[1].row.spent_day # task[1].key
    /\ task[1].row.spent_today > 0

\* C9: when the stored day is not today, try_debit sets the day key to today
\* and the day's spending to 0 before its tests, so that only the price of
\* this debit is held against the daily budget.
C9_DayRollover ==
    \A t \in Tasks :
        task[t].pc = "debit_save" /\ task[t].row.spent_day # task[t].key =>
            LET row == task[t].row
                p   == task[t].total
                ok  == task[t].reason = "OK"
            IN  /\ task[t].u.spent_day = task[t].key
                /\ task[t].u.spent_today = IF ok THEN p ELSE 0
                /\ task[t].reason = "Daily budget exceeded." =>
                      p > row.daily_budget

\* A debit accepted today that yesterday's spending would have refused.
C9_Witness ==
    /\ task[1].pc = "debit_save"
    /\ task[1].reason = "OK"
    /\ task[1].row.spent_day # task[1].key
    /\ task[1].row.daily_budget > 0
    /\ task[1].row.spent_today + task[1].total > task[1].row.daily_budget

\* C3: when try_debit accepted and the sending then failed, the debit is
\* undone: credit, spent_today and overall_limit are what they were before.
C3_RollbackOnFailure ==
    \A t \in Tasks :
        task[t].pc = "done" /\ task[t].reason = "OK" /\ task[t].sent = 0 =>
            LET row == task[t].row
                new == users[task[t].uid]
            IN  /\ new.credit = row.credit
                /\ new.spent_today = SpentOn(row, task[t].key)
                /\ new.overall_limit = row.overall_limit

\* C10: a handler whose debit was refused makes no try_send_gift call, in
\* on_buy and in try_auto_buy alike.
C10_NoSendOnRefusal ==
    \A t \in Tasks :
        task[t].reason \notin {"", "OK"} => task[t].tries = 0 /\ task[t].sent = 0

\* try_auto_buy is about to log a refused debit.
C10_Witness ==
    /\ task[1].op = "test_notify"
    /\ task[1].pc = "log"
    /\ task[1].reason = "Insufficient credit."

RECURSIVE PiecesOf(_, _)
\* The pieces the automatic purchases of uid in the logs sent, all together.
PiecesOf(uid, es) ==
    IF es = << >> THEN 0
    ELSE (IF Head(es).uid = uid /\ Head(es).kind \in {"AUTO_OK", "AUTO_PARTIAL"}
          THEN Head(es).sent ELSE 0) + PiecesOf(uid, Tail(es))

RECURSIVE RunsOf(_, _)
\* The try_auto_buy calls of uid in the logs that debited and sent.
RunsOf(uid, es) ==
    IF es = << >> THEN 0
    ELSE (IF Head(es).uid = uid /\ Head(es).kind \in {"AUTO_OK", "AUTO_PARTIAL"}
          THEN 1 ELSE 0) + RunsOf(uid, Tail(es))

\* C11: a run that starts with a supply limit S > 0 never buys more than S
\* pieces in all, over all of its automatic purchases (the limit is not
\* edited in this specification).
C11_SupplyCap ==
    \A uid \in Uids :
        configured[uid].supply_limit > 0 =>
            PiecesOf(uid, logs) <= configured[uid].supply_limit

\* C12: with cycles = N > 0, at most N automatic purchases are made; after
\* them the engine has stopped (no start is given in this specification).
C12_StopOnExhaustion ==
    \A uid \in Uids :
        configured[uid].cycles > 0 =>
            RunsOf(uid, logs) <= configured[uid].cycles

\* C18: a BUY entry is logged only when at least one send succeeded, and an
\* AUTO_OK entry only when every send did.
C18_RecordOnlyAfterSuccess ==
    \A i \in 1..Len(logs) :
        /\ logs[i].kind = "BUY" => logs[i].sent >= 1
        /\ logs[i].kind = "AUTO_OK" => logs[i].sent >= 1 /\ logs[i].sent = logs[i].qty

\* The admission policy for a price: within the limits, a limit of 0 being
\* no limit on its side.
Policy(u, price) ==
    /\ u.lower_limit = 0 \/ price >= u.lower_limit
    /\ u.upper_limit = 0 \/ price <= u.upper_limit

\* try_auto_buy has chosen its gift.
Chosen(t) == InAuto(task[t]) /\ task[t].gid # << >>

\* try_auto_buy is about to log that no gift matches.
NoneChosen(t) ==
    /\ InAuto(task[t]) /\ task[t].pc = "log"
    /\ task[t].seen /\ task[t].reason = ""

\* C14: the gift an automatic purchase takes has a price within the limits
\* of the row that was read, a limit of 0 being no limit; and no gift is
\* taken only when no active gift has such a price (an upper limit of 0
\* rejects nothing).
C14_AdmissionBounds ==
    \A t \in Tasks :
        /\ Chosen(t) =>
              /\ gifts[task[t].gid].active
              /\ Policy(task[t].u, task[t].price)
        /\ NoneChosen(t) =>
              \A gid \in gifts_active : ~Policy(task[t].u, gifts[gid].price)

\* With a lower limit and no upper limit, the gift above the lower limit is
\* taken and an active one below it is passed over.
C14_Witness ==
    /\ Chosen(1)
    /\ task[1].u.upper_limit = 0
    /\ task[1].u.lower_limit > 0
    /\ \E gid \in gifts_active : gifts[gid].price < task[1].u.lower_limit

\* C15: the automatic purchase a channel post sets off is of the gift the
\* post announced, and happens only if that gift passes the admission
\* policy.
C15_ExecutorOnEvaluatedOffer ==
    \A t \in Tasks :
        task[t].op = "on_channel_post" /\ Chosen(t) =>
            /\ task[t].gid = task[t].drop
            /\ Policy(task[t].u, gifts[task[t].drop].price)

\* The reasons try_send_gift returns with a failure.
SendFailures == {"Unknown API response", "exception"}

\* The logs hold an AUTO_FAIL entry of uid for a failed send.
FailLogged(uid) ==
    \E i \in 1..Len(logs) :
        /\ logs[i].kind = "AUTO_FAIL"
        /\ logs[i].uid = uid
        /\ logs[i].note \in SendFailures

\* C19: a try_send_gift that fails inside try_auto_buy returns its reason,
\* which is logged as AUTO_FAIL; try_auto_buy goes on to its last db_log
\* and returns, Auto-Buy stays on, and the user is still bought for on the
\* next post.
C19_FailureKeepsRunning ==
    /\ \A t \in Tasks :
          InAuto(task[t]) /\ task[t].tries > task[t].sent =>
              /\ FailLogged(task[t].uid)
              /\ task[t].pc = "log" \/ logs[Len(logs)].kind = "AUTO_PARTIAL"
    /\ \A i \in 1..Len(logs) :
          logs[i].kind = "AUTO_FAIL" /\ logs[i].note \in SendFailures =>
              /\ users[logs[i].uid].auto_on
              /\ eligible(users[logs[i].uid], Channel)
              /\ i < Len(logs) => logs[i + 1].kind = "AUTO_PARTIAL"

\* A send raised, the failure was logged, and the next post was bought for.
C19_Witness ==
    \E i, j \in 1..Len(logs) :
        /\ i < j
        /\ logs[i].kind = "AUTO_FAIL" /\ logs[i].note = "exception"
        /\ logs[j].kind = "AUTO_OK" /\ logs[j].uid = logs[i].uid

\* toggle_auto has written the row with Auto-Buy turned on.
TurnedOn(t) ==
    /\ task[t].op = "toggle_auto"
    /\ task[t].pc \in {"show", "done"}
    /\ task[t].val = TRUE

\* C13: the row toggle_auto writes when it turns Auto-Buy on has the overall
\* limit, the supply limit and the cycles that were configured, whatever the
\* runs before have used up (no setting is edited in this specification).
C13_FreshRunOnStart ==
    \A t \in Tasks :
        TurnedOn(t) =>
            LET new == task[t].u
                cfg == configured[task[t].uid]
            IN  /\ new.overall_limit = cfg.overall_limit
                /\ new.supply_limit = cfg.supply_limit
                /\ new.cycles = cfg.cycles

\* No toggle_auto is in flight.
NoToggle == \A t \in Tasks : task[t].op # "toggle_auto"

\* C16: once toggle_auto has ended with Auto-Buy off, auto_on stays false
\* until the next toggle_auto, whatever the try_auto_buy calls in flight
\* write back.
C16_StopNotLost ==
    [][\A uid \in Uids :
          NoToggle /\ ~users[uid].auto_on => ~users'[uid].auto_on]_vars

\* try_auto_buy's send loop has ended after an accepted debit, and Auto-Buy
\* is off by now.
StoppedMeanwhile(t) ==
    /\ InAuto(task[t])
    /\ task[t].reason = "OK"
    /\ task[t].pc \in {"log", "done"}
    /\ ~users[task[t].uid].auto_on

\* A try_auto_buy that read Auto-Buy off has chosen no gift, debited nothing
\* and sent nothing.
SkipsWhenOff ==
    \A t \in Tasks :
        InAuto(task[t]) /\ ~task[t].seen =>
            /\ task[t].gid = << >>
            /\ task[t].reason = ""
            /\ task[t].tries = 0
            /\ task[t].sent = 0

\* C17, as claimed: Auto-Buy read off, no debit and no send; switched off
\* after the test, every send of the quantity is still attempted.
C17_FlagAtIterationStart ==
    /\ SkipsWhenOff
    /\ \A t \in Tasks :
          StoppedMeanwhile(t) => task[t].tries = task[t].qty

\* C17, amended: Auto-Buy read off, no debit and no send; switched off after
\* the test, the sends still go on until the quantity is sent or one of
\* them fails.
C17_FlagAtIterationStartUntilFailure ==
    /\ SkipsWhenOff
    /\ \A t \in Tasks :
          StoppedMeanwhile(t) =>
              \/ task[t].sent = task[t].qty
              \/ task[t].tries = task[t].sent + 1

\* Auto-Buy was on when a drop of two pieces began and was switched off
\* before its second send, which was made all the same.
C17_Witness ==
    \E t \in Tasks :
        /\ StoppedMeanwhile(t)
        /\ task[t].seen
        /\ task[t].qty = 2
        /\ task[t].sent = 2
        /\ \E e \in Tasks : task[e].op = "toggle_auto" /\ task[e].pc = "done"
                              /\ task[e].val = FALSE

\* C20: in every state reached by debits, deposits and settings edits, the
\* stored credit is not negative and, where a daily budget is set, the
\* stored spending of the day is within it.
C20_LedgerInvariantWithEdits ==
    \A uid \in Uids :
        LET u == users[uid]
        IN  /\ u.credit >= 0
            /\ u.daily_budget > 0 => u.spent_today <= u.daily_budget

\* The handlers with a send loop.
Buys(t) == task[t].op \in {"on_buy", "test_notify", "on_channel_post"}

\* C23: in one purchase, try_send_gift is called at most qty times and never
\* after a call that failed; the sent count logged is the number of sends
\* that succeeded; and the debit is price * qty whatever was sent.
C23_SendsStopAtFirstFailure ==
    \A t \in Tasks :
        Buys(t) =>
            /\ task[t].tries <= task[t].qty
            /\ task[t].sent <= task[t].tries
            /\ task[t].tries <= task[t].sent + 1
            /\ task[t].tries > task[t].sent => task[t].pc \in {"log", "done"}
            /\ Debited(t) /\ task[t].reason = "OK" =>
                  /\ task[t].total = task[t].price * task[t].qty
                  /\ users[task[t].uid].credit = task[t].row.credit - task[t].total
            /\ task[t].pc = "done" /\ task[t].reason = "OK" =>
                  /\ logs[Len(logs)].sent = task[t].sent
                  /\ logs[Len(logs)].qty = task[t].qty
                  /\ logs[Len(logs)].cost = task[t].price * task[t].qty

\* Two pieces were debited, the first send failed and the second was not
\* attempted.
C23_Witness ==
    /\ task[1].pc = "done"
    /\ task[1].reason = "OK"
    /\ task[1].qty = 2
    /\ task[1].tries = 1
    /\ task[1].sent = 0
    /\ users[1].credit = task[1].row.credit - 2 * task[1].price

\* C25: on_paid, run on its own, adds the amount paid to the stored credit
\* and leaves every other column of the row as it was.
C25_DepositChangesOnlyCredit ==
    \A t \in Tasks :
        task[t].op = "on_paid" /\ task[t].pc \in {"log", "done"} =>
            LET row == task[t].row
                new == users[task[t].uid]
            IN  /\ new.credit = row.credit + task[t].total
                /\ \A f \in DOMAIN row \ {"credit"} : new[f] = row[f]

\* A deposit into a row with a daily budget set and spending of the day.
C25_Witness ==
    /\ task[1].op = "on_paid"
    /\ task[1].pc = "done"
    /\ task[1].total > 0
    /\ task[1].row.daily_budget > 0
    /\ task[1].row.spent_today > 0
    /\ users[1].spent_today = task[1].row.spent_today

\* C21: whether try_auto_buy may take a gift is decided by the gift's price
\* and the user's limits alone: whatever else the catalog holds, whatever
\* the ledger and the time, an active gift is one that first_allowed_gift
\* may return exactly when its price is within the limits.
C21_AdmissionDeterminism ==
    \A t \in Tasks :
        InAuto(task[t]) /\ task[t].pc = "pick" =>
            \A gid \in gifts_active :
                gid \in first_allowed_gift(task[t].u)
                    <=> Policy(task[t].u, gifts[gid].price)

\* on_channel_post has called try_auto_buy for the user it is visiting.
PostBuys(t) ==
    /\ task[t].op = "on_channel_post"
    /\ task[t].pc \in {"auto", "pick", "debit", "debit_save", "send", "log"}

\* C26: on_channel_post runs try_auto_buy, and so debits and sends, only for
\* a user with Auto-Buy on whose notifier is the channel of the post; a user
\* with Auto-Buy off or no notifier keeps every star.
C26_PostBuysForEligibleOnly ==
    /\ \A t \in Tasks :
          PostBuys(t) =>
              /\ users[task[t].uid].auto_on
              /\ users[task[t].uid].notifier_id = task[t].chat
    /\ \A uid \in Uids :
          ~users[uid].auto_on \/ users[uid].notifier_id = None =>
              /\ users[uid].credit = configured[uid].credit
              /\ \A i \in 1..Len(logs) : logs[i].uid # uid

\* The other channel's post buys for user 2, whose notifier it is, after
\* passing over user 1, whose notifier is the channel.
C26_Witness ==
    /\ task[1].op = "on_channel_post"
    /\ task[1].chat = Other
    /\ task[1].uid = 2
    /\ task[1].pc = "send"
    /\ users[1].auto_on /\ users[1].notifier_id = Channel
    /\ users[1].credit = configured[1].credit

\* try_auto_buy has computed its quantity and called try_debit.
AtDebit(t) ==
    /\ InAuto(task[t])
    /\ task[t].pc \in {"debit", "debit_save", "send"}

\* C22: in a try_auto_buy that reaches the debit, 1 <= qty <= per_drop_max,
\* qty <= cycles when cycles > 0 and qty <= supply_limit when
\* supply_limit > 0, for every row set_field can store; the amount handed
\* to try_debit, and debited when it accepts, is price * qty.
C22_QuantityBounds ==
    \A t \in Tasks :
        AtDebit(t) =>
            LET u   == task[t].u
                qty == task[t].qty
            IN  /\ 1 <= qty
                /\ qty <= u.per_drop_max
                /\ u.cycles > 0 => qty <= u.cycles
                /\ u.supply_limit > 0 => qty <= u.supply_limit
                /\ task[t].total = gifts[task[t].gid].price * qty
                /\ task[t].pc = "send" =>
                      users[task[t].uid].credit =
                          task[t].row.credit - gifts[task[t].gid].price * qty

\* A drop of two pieces: three per drop allowed and three cycles, but a
\* supply limit of two.
C22_Witness ==
    /\ AtDebit(1)
    /\ task[1].pc = "send"
    /\ task[1].u.per_drop_max = 3
    /\ task[1].u.cycles = 3
    /\ task[1].u.supply_limit = 2
    /\ task[1].qty = 2

\* The settings columns that may be 0.
FromZero ==
    {"cycles", "lower_limit", "upper_limit", "overall_limit", "supply_limit",
     "daily_budget", "gift_ttl_hours"}

\* C24: after any settings edits and debits, the stored cycles, lower_limit,
\* upper_limit, overall_limit, supply_limit, daily_budget and gift_ttl_hours
\* are >= 0 and per_drop_max is >= 1; a debit does not take overall_limit
\* below 0.
C24_SettingsInRange ==
    \A uid \in Uids :
        /\ \A f \in FromZero : users[uid][f] >= 0
        /\ users[uid].per_drop_max >= 1

\* A debit has taken the overall limit from 20 to 5, and the -1 sent for
\* the cycles and for per_drop_max was stored as 0 and as 1.
C24_Witness ==
    /\ users[1].overall_limit = 5
    /\ users[1].cycles = 0
    /\ task[1].op = "set_field"
    /\ task[1].pc = "done"
    /\ task[1].field = "per_drop_max"
    /\ task[1].val = 1

\* C27: a gift that a post has announced (gift_upsert) is active for at
\* least the TTL from that announcement, also when its gid was in the
\* catalog before: while the post is being handled and less than the TTL
\* has passed since its gift_upsert, the gift is active.
C27_GiftLifetime ==
    \A t \in Tasks :
        /\ task[t].op = "on_channel_post"
        /\ task[t].pc # "idle"
        /\ now - task[t].at < gc_ttl * 3600
        => gifts[task[t].drop].active

====
